---- MODULE Spec2Model ----
(***************************************************************************)
(* Route optimization cloud function: the HTTP handler                     *)
(* (optimizeRouteFunction), the solver call (optimizeRoute) and the        *)
(* post-solve view builders of lib/aux.js (getVisitsDetail,                *)
(* createVisitsAPIResponse, buildOptimizationSummary).                     *)
(*                                                                         *)
(* Conventions                                                             *)
(*  - a JavaScript string the code parses or builds is a sequence of       *)
(*    one-character strings;                                               *)
(*  - an optional value (undefined / null / a missing key) is a sequence   *)
(*    of length 0, a present one a sequence of length 1;                   *)
(*  - a call that may throw yields [ok, val, err]: Return(v) or Throw(e);  *)
(*  - the result of parseInt is [nan, val]: NaN or Num(n);                 *)
(*  - coordinates are integers (micro-degrees), durations are seconds.     *)
(***************************************************************************)
EXTENDS Integers, Sequences, FiniteSets, TLC

VARIABLES
    env,                 \* process.env: the three credential variables
    pc,                  \* the handler's position: "idle", "awaiting", "done"
    req,                 \* the inbound request, None before it arrives
    bookings, vehicles,  \* the output of transformRequestData, None before
    clients,             \* RouteOptimizationClient objects constructed
    solverCalls,         \* client.optimizeTours calls issued
    request,             \* the request given to client.optimizeTours
    response,            \* the solver's response
    thrown,              \* the error caught by the handler's catch block
    logged,              \* console.error calls, in order
    visits_detail,       \* the value getVisitsDetail returned
    visits_api_response, \* the value createVisitsAPIResponse returned
    summary,             \* the value buildOptimizationSummary returned
    sent,                \* the answers sent on res, in order
    call,                \* a library function called on its own, with its
                         \* arguments; None in the handler's executions
    result               \* what that call returned, None before it returns

vars == <<env, pc, req, bookings, vehicles, clients, solverCalls, request,
          response, thrown, logged, visits_detail, visits_api_response,
          summary, sent, call, result>>

-----------------------------------------------------------------------------
(* Generic helpers                                                         *)

Some(v) == <<v>>

None == <<>>

Return(v) == [ok |-> TRUE, val |-> <<v>>, err |-> <<>>]

Throw(e) == [ok |-> FALSE, val |-> <<>>, err |-> <<e>>]

NaN == [nan |-> TRUE, val |-> 0]

Num(n) == [nan |-> FALSE, val |-> n]

Min(S) == CHOOSE x \in S : \A y \in S : x <= y

\* Body applied to value, with value computed once (a LET definition is
\* computed again at each of its uses when TLC measures coverage)
With(value, Body(_)) == CHOOSE r \in {Body(v) : v \in {value}} : TRUE

\* a sequence given as a function, with its elements computed once
ArrayOf(f) == f \o <<>>

\* Array.prototype.map with a callback that may throw: the first throwing
\* element (in index order) aborts the map with its error.
MapThrowing(results) ==
    With(ArrayOf(results), LAMBDA rs :
        LET failing == {i \in 1..Len(rs) : ~rs[i].ok}
        IN  IF failing /= {}
            THEN Throw(rs[Min(failing)].err[1])
            ELSE Return(ArrayOf([i \in 1..Len(rs) |-> rs[i].val[1]])))

\* Array.prototype.filter
Filter(s, Test(_)) == SelectSeq(s, Test)

RECURSIVE SumSeq(_)
SumSeq(s) == IF s = <<>> THEN 0 ELSE s[1] + SumSeq(Tail(s))

-----------------------------------------------------------------------------
(* JavaScript string operations used on shipment labels                    *)

Digits == <<"0", "1", "2", "3", "4", "5", "6", "7", "8", "9">>

IsDigit(c) == \E d \in 1..10 : Digits[d] = c

DigitVal(c) == (CHOOSE d \in 1..10 : Digits[d] = c) - 1

IsSpace(c) == c = " "

\* t occurs in s starting at position i
OccursAt(s, t, i) ==
    /\ i >= 1
    /\ i + Len(t) - 1 <= Len(s)
    /\ \A k \in 1..Len(t) : s[i + k - 1] = t[k]

\* String.prototype.indexOf, 1-based; 0 when t does not occur
IndexOf(s, t) ==
    LET hits == {i \in 1..(Len(s) + 1) : OccursAt(s, t, i)}
    IN  IF hits = {} THEN 0 ELSE Min(hits)

\* String.prototype.includes
Includes(s, t) == IndexOf(s, t) /= 0

\* String.prototype.replace with a string pattern: the first occurrence only
Replace(s, t, r) ==
    LET i == IndexOf(s, t)
    IN  IF i = 0 THEN s
        ELSE SubSeq(s, 1, i - 1) \o r \o SubSeq(s, i + Len(t), Len(s))

\* String.prototype.trim
Trim(s) ==
    LET keep == {i \in 1..Len(s) : ~IsSpace(s[i])}
    IN  IF keep = {} THEN <<>>
        ELSE SubSeq(s, Min(keep), CHOOSE j \in keep : \A k \in keep : k <= j)

RECURSIVE DigitsValue(_, _)
\* value of the leading run of digits of s, continuing the accumulator acc
DigitsValue(s, acc) ==
    IF s = <<>> \/ ~IsDigit(s[1]) THEN acc
    ELSE DigitsValue(Tail(s), acc * 10 + DigitVal(s[1]))

\* parseInt(string): leading white space skipped, an optional sign, then the
\* longest run of decimal digits; NaN when there is no digit there
ParseInt(s) ==
    LET nonsp  == {i \in 1..Len(s) : ~IsSpace(s[i])}
        t      == IF nonsp = {} THEN <<>> ELSE SubSeq(s, Min(nonsp), Len(s))
        signed == t /= <<>> /\ t[1] \in {"-", "+"}
        u      == IF signed THEN Tail(t) ELSE t
    IN  IF u = <<>> \/ ~IsDigit(u[1]) THEN NaN
        ELSE IF signed /\ t[1] = "-" THEN Num(0 - DigitsValue(u, 0))
        ELSE Num(DigitsValue(u, 0))

RECURSIVE NatToString(_)
\* template literal `${n}` for a natural number
NatToString(n) ==
    IF n < 10 THEN <<Digits[n + 1]>>
    ELSE NatToString(n \div 10) \o <<Digits[(n % 10) + 1]>>

-----------------------------------------------------------------------------
(* config.js                                                               *)

MAX_ROUTE_TIME_IN_MINUTES == 90

STOP_TIME_IN_MINUTES == 3

VEHICLE_CAPACITY == 7

BOOKING_TOKEN == <<"B", "o", "o", "k", "i", "n", "g">>

-----------------------------------------------------------------------------
(* lib/aux.js                                                              *)

\* the null / undefined argument of the `if (!visit)` guards
NullVisit == [isNull |-> TRUE]

IsNull(visit) == "isNull" \in DOMAIN visit

\* an extraction that parses the label with the token left in
getBookingIDFromShipment_KeepToken(visit) ==
    IF IsNull(visit) THEN Num(-1) ELSE ParseInt(Trim(visit.shipmentLabel))

getBookingIDFromShipment(visit) ==
    IF IsNull(visit) THEN Num(-1)
    ELSE IF Includes(visit.shipmentLabel, BOOKING_TOKEN)
         THEN ParseInt(Trim(Replace(visit.shipmentLabel, BOOKING_TOKEN, <<>>)))
         ELSE ParseInt(Trim(visit.shipmentLabel))

\* new Error(`No booking found with label: ${visit.shipmentLabel}`)
NoBookingError(visit) ==
    [message |-> <<"No booking found with label: ", visit.shipmentLabel>>,
     details |-> None]

\* a lookup that takes the first booking whatever its label
getReferenceBooking_AnyLabel(bks, visit) ==
    IF bks = <<>>
    THEN Throw(NoBookingError(visit))
    ELSE Return(
           [ref_booking |-> bks[1],
            ref_booking_origin_coordinates |->
               [latitude  |-> bks[1].pickups[1].arrivalLocation.latitude,
                longitude |-> bks[1].pickups[1].arrivalLocation.longitude],
            ref_booking_destination_coordinates |->
               [latitude  |-> bks[1].deliveries[1].arrivalLocation.latitude,
                longitude |-> bks[1].deliveries[1].arrivalLocation.longitude]])

getReferenceBooking(bks, visit) ==
    With(Filter(bks, LAMBDA b : b.label = visit.shipmentLabel), LAMBDA matching :
        IF matching = <<>>
        THEN Throw(NoBookingError(visit))
        ELSE LET ref_booking == matching[1]
             IN  Return(
                   [ref_booking |-> ref_booking,
                    ref_booking_origin_coordinates |->
                       [latitude  |-> ref_booking.pickups[1].arrivalLocation.latitude,
                        longitude |-> ref_booking.pickups[1].arrivalLocation.longitude],
                    ref_booking_destination_coordinates |->
                       [latitude  |-> ref_booking.deliveries[1].arrivalLocation.latitude,
                        longitude |-> ref_booking.deliveries[1].arrivalLocation.longitude]]))

\* distancesByVisit = {}
EmptyObject == [k \in {} |-> 0]

\* object[key] = value
SetKey(object, key, value) ==
    [k \in DOMAIN object \cup {key} |-> IF k = key THEN value ELSE object[k]]

\* object[key], undefined when the key is missing
GetKey(object, key) ==
    IF key \in DOMAIN object THEN Some(object[key]) ELSE None

\* a filter that keeps every transition ended by the visit's startTime
matchingTransitions_EndedBy(transitions, visit) ==
    Filter(transitions, LAMBDA t : t.startTime + t.totalDuration <= visit.startTime)

\* the transitions whose startTime + totalDuration is the visit's startTime
matchingTransitions(transitions, visit) ==
    Filter(transitions, LAMBDA t : t.startTime + t.totalDuration = visit.startTime)

RECURSIVE CumulativeLoop(_, _, _, _, _)
\* the forEach of getCumulativeDistances from (1-based) position i on, with
\* the running total and the object built so far
CumulativeLoop(dropoff_visits, transitions, i, cumulativeDistance, distancesByVisit) ==
    IF i > Len(dropoff_visits) THEN distancesByVisit
    ELSE LET visit == dropoff_visits[i]
         IN  With(matchingTransitions(transitions, visit), LAMBDA matching :
             IF matching /= <<>>
             THEN With(cumulativeDistance + matching[1].travelDistanceMeters, LAMBDA total :
                  With(SetKey(distancesByVisit, getBookingIDFromShipment(visit),
                              [visitIndex |-> i - 1, distanceMeters |-> total]),
                       LAMBDA assigned :
                       CumulativeLoop(dropoff_visits, transitions, i + 1, total, assigned)))
             ELSE CumulativeLoop(dropoff_visits, transitions, i + 1,
                                 cumulativeDistance, distancesByVisit))

getCumulativeDistances(dropoff_visits, transitions) ==
    CumulativeLoop(dropoff_visits, transitions, 1, 0, EmptyObject)

\* cumulativeDistance?.distanceMeters || 0
DistanceOrZero(cumulativeDistances, bookingId) ==
    LET cumulativeDistance == GetKey(cumulativeDistances, bookingId)
    IN  IF cumulativeDistance = None THEN 0
        ELSE cumulativeDistance[1].distanceMeters

\* Math.round(seconds / 60) for seconds >= 0
getVisitTravelTime(visit) ==
    IF IsNull(visit) THEN -1 ELSE (visit.startTime + 30) \div 60

\* a sum that does not leave out the negative amounts
getPassengersAlongRoute_Signed(route) ==
    SumSeq([i \in 1..Len(route.visits) |-> route.visits[i].amount])

getPassengersAlongRoute(route) ==
    SumSeq(Filter([i \in 1..Len(route.visits) |-> route.visits[i].amount],
                  LAMBDA count : count > 0))

getPassengersVisit(visit, pickup) ==
    visit.amount * (IF pickup THEN 1 ELSE -1)

pickupVisits(route) == Filter(route.visits, LAMBDA v : v.isPickup)

dropoffVisits(route) == Filter(route.visits, LAMBDA v : ~v.isPickup)

\* the record getVisitsDetail builds for one visit; throws when no booking matches
VisitDetail(bks, cumulativeDistances, index, visit, visit_index, pickup) ==
    With(getReferenceBooking(bks, visit), LAMBDA ref :
    With(getBookingIDFromShipment(visit), LAMBDA bookingId :
        IF ~ref.ok THEN Throw(ref.err[1])
        ELSE Return(
          [route_number |-> index + 1,
           visit_index  |-> visit_index,
           booking_id   |-> bookingId,
           origin       |-> [lat |-> ref.val[1].ref_booking_origin_coordinates.latitude,
                             lng |-> ref.val[1].ref_booking_origin_coordinates.longitude],
           destination  |-> [lat |-> ref.val[1].ref_booking_destination_coordinates.latitude,
                             lng |-> ref.val[1].ref_booking_destination_coordinates.longitude],
           distance     |-> DistanceOrZero(cumulativeDistances, bookingId),
           travel_time  |-> getVisitTravelTime(visit),
           pax_count    |-> getPassengersVisit(visit, pickup)])))

\* the record getVisitsDetail builds for the route at 0-based position index
RouteDetail(bks, route, index, pickup) ==
    With(dropoffVisits(route), LAMBDA dropoff_visits :
    With(IF pickup THEN pickupVisits(route) ELSE dropoff_visits, LAMBDA visits_ :
    With(getCumulativeDistances(dropoff_visits, route.transitions), LAMBDA cumulativeDistances :
    With(MapThrowing([j \in 1..Len(visits_) |->
            VisitDetail(bks, cumulativeDistances, index, visits_[j], j - 1, pickup)]),
         LAMBDA mapped :
        IF ~mapped.ok THEN mapped
        ELSE Return([vehicle  |-> route.vehicleLabel,
                     visits   |-> mapped.val[1],
                     polyline |-> route.routePolyline])))))

getVisitsDetail(bks, routes, pickup) ==
    MapThrowing([i \in 1..Len(routes) |-> RouteDetail(bks, routes[i], i - 1, pickup)])

\* (seconds / 60).toFixed(2), in hundredths of a minute (no tie is possible:
\* 100 * seconds / 60 never ends in .5)
ToFixed2Minutes(seconds) == (seconds * 100 + 30) \div 60

\* an entry whose total_stops counts the pickup visits too
SummaryEntry_AllStops(route, index) ==
    [route_number     |-> index + 1,
     total_stops      |-> Len(route.visits),
     total_pickups    |-> Len(pickupVisits(route)),
     total_dropoffs   |-> Len(dropoffVisits(route)),
     vehicle_label    |-> route.vehicleLabel,
     total_passengers |-> getPassengersAlongRoute(route),
     vehicle_capacity |-> VEHICLE_CAPACITY,
     stats |->
       [total_travel_time_minutes |-> ToFixed2Minutes(route.metrics[1].travelDuration),
        total_stops_time_minutes  |-> ToFixed2Minutes(route.metrics[1].visitDuration),
        total_route_time_minutes  |-> ToFixed2Minutes(route.metrics[1].totalDuration),
        total_route_distance_mts  |-> route.metrics[1].travelDistanceMeters,
        max_route_time_minutes    |-> MAX_ROUTE_TIME_IN_MINUTES]]

\* the entry buildOptimizationSummary pushes for the route at 0-based index
SummaryEntry(route, index) ==
    [route_number     |-> index + 1,
     total_stops      |-> Len(dropoffVisits(route)),
     total_pickups    |-> Len(pickupVisits(route)),
     total_dropoffs   |-> Len(dropoffVisits(route)),
     vehicle_label    |-> route.vehicleLabel,
     total_passengers |-> getPassengersAlongRoute(route),
     vehicle_capacity |-> VEHICLE_CAPACITY,
     stats |->
       [total_travel_time_minutes |-> ToFixed2Minutes(route.metrics[1].travelDuration),
        total_stops_time_minutes  |-> ToFixed2Minutes(route.metrics[1].visitDuration),
        total_route_time_minutes  |-> ToFixed2Minutes(route.metrics[1].totalDuration),
        total_route_distance_mts  |-> route.metrics[1].travelDistanceMeters,
        max_route_time_minutes    |-> MAX_ROUTE_TIME_IN_MINUTES]]

RECURSIVE SummaryLoop(_, _, _)
\* the forEach of buildOptimizationSummary from (1-based) position i on
SummaryLoop(routes, i, output) ==
    IF i > Len(routes) THEN output
    ELSE IF routes[i].metrics = None
         THEN SummaryLoop(routes, i + 1, output)
         ELSE With([output EXCEPT !.routes = Append(@, SummaryEntry(routes[i], i - 1))],
                   LAMBDA pushed : SummaryLoop(routes, i + 1, pushed))

buildOptimizationSummary(resp) ==
    SummaryLoop(resp.routes, 1, [total_routes |-> Len(resp.routes), routes |-> <<>>])

\* a record whose position in the route counts from 1
VisitRecord_OneBased(bks, cumulativeDistances, index, visit, visit_index) ==
    With(getReferenceBooking(bks, visit), LAMBDA ref :
    With(getBookingIDFromShipment(visit), LAMBDA bookingId :
        IF ~ref.ok THEN Throw(ref.err[1])
        ELSE Return(
          [num_ruta |-> index + 1,
           num_viaje |-> index + 1,
           posicion_en_ruta |-> visit_index + 1,
           cod_cliente |-> bookingId,
           lat |-> ref.val[1].ref_booking_destination_coordinates.latitude,
           lng |-> ref.val[1].ref_booking_destination_coordinates.longitude,
           distancia |-> DistanceOrZero(cumulativeDistances, bookingId),
           tiempo_viaje |-> getVisitTravelTime(visit)])))

\* the record createVisitsAPIResponse builds for one drop-off visit
VisitRecord(bks, cumulativeDistances, index, visit, visit_index) ==
    With(getReferenceBooking(bks, visit), LAMBDA ref :
    With(getBookingIDFromShipment(visit), LAMBDA bookingId :
        IF ~ref.ok THEN Throw(ref.err[1])
        ELSE Return(
          [num_ruta |-> index + 1,
           num_viaje |-> index + 1,
           posicion_en_ruta |-> visit_index,
           cod_cliente |-> bookingId,
           lat |-> ref.val[1].ref_booking_destination_coordinates.latitude,
           lng |-> ref.val[1].ref_booking_destination_coordinates.longitude,
           distancia |-> DistanceOrZero(cumulativeDistances, bookingId),
           tiempo_viaje |-> getVisitTravelTime(visit)])))

\* the start element and visit records createVisitsAPIResponse assigns to
\* results.responde for the route at 0-based position index
RouteRecords(bks, route, index) ==
    With(dropoffVisits(route), LAMBDA dropoff_visits :
    With(getCumulativeDistances(dropoff_visits, route.transitions), LAMBDA cumulativeDistances :
    With(IF Len(dropoff_visits) > 0
         THEN getReferenceBooking(bks, dropoff_visits[1])
         ELSE Return(NullVisit), LAMBDA first :
    With(MapThrowing([j \in 1..Len(dropoff_visits) |->
            VisitRecord(bks, cumulativeDistances, index, dropoff_visits[j], j - 1)]),
         LAMBDA visitDetails :
        LET startElement ==
              [num_ruta |-> index + 1,
               num_viaje |-> index + 1,
               posicion_en_ruta |-> -1,
               cod_cliente |-> Num(0),
               lat |-> IF Len(dropoff_visits) > 0 /\ first.ok
                       THEN first.val[1].ref_booking_origin_coordinates.latitude ELSE 0,
               lng |-> IF Len(dropoff_visits) > 0 /\ first.ok
                       THEN first.val[1].ref_booking_origin_coordinates.longitude ELSE 0,
               distancia |-> 0,
               tiempo_viaje |-> 0]
        IN  IF ~first.ok THEN Throw(first.err[1])
            ELSE IF ~visitDetails.ok THEN visitDetails
            ELSE Return(<<startElement>> \o visitDetails.val[1])))))

RECURSIVE ResponseLoop(_, _, _, _)
\* the forEach of createVisitsAPIResponse from (1-based) position i on
ResponseLoop(bks, routes, i, results) ==
    IF i > Len(routes) THEN Return(results)
    ELSE With(RouteRecords(bks, routes[i], i - 1), LAMBDA records :
             IF ~records.ok THEN records
             ELSE With([status |-> results.status, responde |-> records.val[1]],
                       LAMBDA assigned : ResponseLoop(bks, routes, i + 1, assigned)))

RECURSIVE ResponseLoop_Appending(_, _, _, _)
\* a loop that appends each route's records to those of the routes before
ResponseLoop_Appending(bks, routes, i, results) ==
    IF i > Len(routes) THEN Return(results)
    ELSE With(RouteRecords(bks, routes[i], i - 1), LAMBDA records :
             IF ~records.ok THEN records
             ELSE With([status |-> results.status,
                        responde |-> (IF "responde" \in DOMAIN results
                                      THEN results.responde ELSE <<>>)
                                     \o records.val[1]],
                       LAMBDA assigned :
                           ResponseLoop_Appending(bks, routes, i + 1, assigned)))

createVisitsAPIResponse_Appending(bks, routes) ==
    ResponseLoop_Appending(bks, routes, 1, [status |-> "Ok"])

createVisitsAPIResponse(bks, routes) ==
    ResponseLoop(bks, routes, 1, [status |-> "Ok"])

-----------------------------------------------------------------------------
(* index.js: the request adapter                                           *)

\* the keys of originLocations / startLocations (names are compared as a whole)
AMB_TERMINAL_1 == "AMB Terminal 1"

AMB_TERMINAL_2 == "AMB Terminal 2"

\* originLocations / startLocations (the two tables are equal)
knownLocations ==
    [name \in {AMB_TERMINAL_1, AMB_TERMINAL_2} |->
        IF name = AMB_TERMINAL_1
        THEN [latitude |-> -33397338, longitude |-> -70794387]
        ELSE [latitude |-> -33393122, longitude |-> -70791804]]

\* table[name] || { latitude: coordinates?.latitude, longitude: coordinates?.longitude }
\* (the inputs of the model always give the coordinates of an unknown name)
locationOf(name, coordinates) ==
    IF name \in DOMAIN knownLocations THEN knownLocations[name]
    ELSE [latitude |-> coordinates[1].latitude, longitude |-> coordinates[1].longitude]

\* value || fallback for an optional number (undefined and 0 are falsy)
OrNumber(value, fallback) ==
    IF value = None \/ value[1] = 0 THEN fallback ELSE value[1]

\* value || fallback for an optional string (undefined and '' are falsy)
OrString(value, fallback) ==
    IF value = None \/ value[1] = <<>> THEN fallback ELSE value[1]

\* requestData.parameters?.[name]
parameterOf(requestData, name) ==
    IF requestData.parameters = None THEN None ELSE requestData.parameters[1][name]

stopTimeInMinutes(requestData) ==
    OrNumber(parameterOf(requestData, "STOP_TIME_IN_MINUTES"), 2)

maxRouteTimeInMinutes(requestData) ==
    OrNumber(parameterOf(requestData, "MAX_ROUTE_TIME_IN_MINUTES"), 90)

\* the TypeError of booking.destination.latitude when destination is undefined
NoDestinationError ==
    [message |-> <<"Cannot read properties of undefined (reading 'latitude')">>,
     details |-> None]

\* the shipment of one booking; throws when the booking has no destination
transformBooking(requestData, booking, index) ==
    LET originLocation == locationOf(booking.origin, booking.origin_coordinates)
    IN  IF booking.destination = None THEN Throw(NoDestinationError)
        ELSE Return(
          [label |-> OrString(booking.job_id,
                              BOOKING_TOKEN \o <<" ">> \o NatToString(index + 1)),
           pickups |-> <<[arrivalLocation |->
                            [latitude  |-> originLocation.latitude,
                             longitude |-> originLocation.longitude]]>>,
           deliveries |-> <<[arrivalLocation |->
                               [latitude  |-> booking.destination[1].latitude,
                                longitude |-> booking.destination[1].longitude],
                             duration |-> stopTimeInMinutes(requestData) * 60]>>,
           amount |-> booking.pax_count])

transformVehicle(requestData, vehicle, index) ==
    LET startLocation == locationOf(vehicle.start_location, vehicle.start_coordinates)
    IN  [label |-> OrString(vehicle.vehicle_number,
                            <<"V", "e", "h", "i", "c", "l", "e", " ">> \o NatToString(index + 1)),
         travelMode |-> "DRIVING",
         costPerHour |-> 40,
         costPerKilometer |-> 10,
         startLocation |-> [latitude  |-> startLocation.latitude,
                            longitude |-> startLocation.longitude],
         maxDuration |-> maxRouteTimeInMinutes(requestData) * 60,
         maxLoad |-> OrNumber(vehicle.vehicle_capacity, 7)]

transformRequestData(requestData) ==
    With(MapThrowing([i \in 1..Len(requestData.bookings.items) |->
            transformBooking(requestData, requestData.bookings.items[i], i - 1)]),
         LAMBDA shipments :
        IF ~shipments.ok THEN shipments
        ELSE Return(
          [bookings |-> shipments.val[1],
           vehicles |-> [i \in 1..Len(requestData.vehicles.items) |->
                transformVehicle(requestData, requestData.vehicles.items[i], i - 1)]]))

\* a test that lets the empty array pass
invalidArray_NotArrayOnly(field) == field.kind /= "array"

\* !field || !Array.isArray(field) || field.length === 0
\* (a field is [kind, items], kind one of "absent", "notArray", "array")
invalidArray(field) == field.kind /= "array" \/ Len(field.items) = 0

\* the body of the 400 answer of the validation block, None when the request passes
validationError(rq) ==
    IF rq.body = None THEN Some([error |-> "Request body is required"])
    ELSE IF invalidArray(rq.body[1].bookings)
         THEN Some([error |-> "At least one booking is required"])
    ELSE IF invalidArray(rq.body[1].vehicles)
         THEN Some([error |-> "At least one vehicle is required"])
    ELSE None

-----------------------------------------------------------------------------
(* optimization.js                                                         *)

RECURSIVE ReplaceAll(_, _, _)
\* String.prototype.replace with a global pattern
ReplaceAll(s, t, r) ==
    LET i == IndexOf(s, t)
    IN  IF i = 0 THEN s
        ELSE SubSeq(s, 1, i - 1) \o r
             \o ReplaceAll(SubSeq(s, i + Len(t), Len(s)), t, r)

\* new Error('<name> environment variable is not set. ...')
MissingVariableError(name) ==
    [message |-> <<name, " environment variable is not set. Please set it before running the application.">>,
     details |-> None]

\* a construction that does not look for the private key
createOptimizationClient_NoKeyCheck(environment) ==
    IF environment.GOOGLE_PROJECT_ID = None
    THEN Throw(MissingVariableError("GOOGLE_PROJECT_ID"))
    ELSE IF environment.GOOGLE_CLIENT_EMAIL = None
    THEN Throw(MissingVariableError("GOOGLE_CLIENT_EMAIL"))
    ELSE Return([credentials |->
                   [projectId    |-> environment.GOOGLE_PROJECT_ID[1],
                    client_email |-> environment.GOOGLE_CLIENT_EMAIL[1],
                    private_key  |-> IF environment.GOOGLE_PRIVATE_KEY = None
                                     THEN <<>>
                                     ELSE environment.GOOGLE_PRIVATE_KEY[1]],
                 apiEndpoint |-> "routeoptimization.googleapis.com"])

createOptimizationClient(environment) ==
    IF environment.GOOGLE_PROJECT_ID = None
    THEN Throw(MissingVariableError("GOOGLE_PROJECT_ID"))
    ELSE IF environment.GOOGLE_CLIENT_EMAIL = None
    THEN Throw(MissingVariableError("GOOGLE_CLIENT_EMAIL"))
    ELSE IF environment.GOOGLE_PRIVATE_KEY = None
    THEN Throw(MissingVariableError("GOOGLE_PRIVATE_KEY"))
    ELSE Return([credentials |->
                   [projectId    |-> environment.GOOGLE_PROJECT_ID[1],
                    client_email |-> environment.GOOGLE_CLIENT_EMAIL[1],
                    private_key  |-> ReplaceAll(environment.GOOGLE_PRIVATE_KEY[1],
                                                <<"\\", "n">>, <<"\n">>)],
                 apiEndpoint |-> "routeoptimization.googleapis.com"])

\* lib/utils.js dateToGoogleFormat: whole seconds of a time in milliseconds
dateToGoogleFormat(dateMs) == [seconds |-> dateMs \div 1000]

\* the request optimizeRoute builds (options = {}), for the clock value nowMs
optimizeToursRequest(environment, bks, vhs, nowMs) ==
    [parent |-> <<"projects/", environment.GOOGLE_PROJECT_ID[1]>>,
     model  |-> [shipments |-> bks,
                 vehicles  |-> vhs,
                 globalStartTime |-> dateToGoogleFormat(nowMs),
                 globalEndTime   |-> dateToGoogleFormat(nowMs + 24 * 60 * 60 * 1000)],
     populateTransitionPolylines |-> TRUE,
     populatePolylines |-> TRUE,
     considerRoadTraffic |-> FALSE]

\* a post-processing that answers with the summary alone when a visit does
\* not match
processResults_Partial(bks, resp) ==
    With(getVisitsDetail(bks, resp.routes, FALSE), LAMBDA detail :
    With(createVisitsAPIResponse(bks, resp.routes), LAMBDA api :
        [visits_detail |-> IF detail.ok THEN detail.val ELSE Some(<<>>),
         visits_api_response |-> IF api.ok THEN api.val ELSE Some([status |-> "Ok"]),
         summary |-> Some(buildOptimizationSummary(resp)),
         error |-> None]))

\* the object literal optimizeRoute returns, its properties evaluated in
\* order: a builder that throws leaves the later ones unevaluated
\* (options.includePickups is undefined, so pickup takes its default, false)
processResults(bks, resp) ==
    With(getVisitsDetail(bks, resp.routes, FALSE), LAMBDA detail :
        IF ~detail.ok
        THEN [visits_detail |-> None, visits_api_response |-> None,
              summary |-> None, error |-> detail.err]
        ELSE With(createVisitsAPIResponse(bks, resp.routes), LAMBDA api :
            IF ~api.ok
            THEN [visits_detail |-> detail.val, visits_api_response |-> None,
                  summary |-> None, error |-> api.err]
            ELSE [visits_detail |-> detail.val, visits_api_response |-> api.val,
                  summary |-> Some(buildOptimizationSummary(resp)), error |-> None]))

-----------------------------------------------------------------------------
(* index.js: the handler                                                   *)

\* the body of the 200 answer (of each visit only the location is modelled)
successBody(resp, results) ==
    [status  |-> "success",
     metrics |-> resp.metrics,
     summary |-> results.summary[1],
     routes  |-> [i \in 1..Len(resp.routes) |->
                    [vehicle |-> resp.routes[i].vehicleLabel,
                     visits  |-> [j \in 1..Len(resp.routes[i].visits) |->
                                    [location |-> IF resp.routes[i].visits[j].isPickup
                                                  THEN "pickup" ELSE "delivery"]]]],
     detailed_visits |-> results.visits_detail[1],
     api_response    |-> results.visits_api_response[1]]

\* the body of the 500 answer of the handler's catch block
errorBody(error) ==
    [status  |-> "error",
     error   |-> error.message,
     details |-> IF error.details = None
                 THEN "No additional details available" ELSE error.details[1]]

\* the console.error of optimizeRoute's catch block
innerLog(error) == [where |-> "Error in route optimization:", error |-> error]

\* the console.error of the handler's catch block
outerLog(error) == [where |-> "Error in route optimization function:", error |-> error]

-----------------------------------------------------------------------------
(* Bounds and inputs                                                       *)

\* most drop-off visits of a route of DistanceResponses
MaxDropoffs == 2

\* most transitions of a route of DistanceResponses
MaxTransitions == 2

\* most visits of a route of PassengerResponses
MaxVisits == 3

\* most routes of a response of MultiRouteResponses
MaxRoutes == 2

SeqsUpTo(S, n) == UNION {[1..k -> S] : k \in 0..n}

LABEL_BOOKING_42 == BOOKING_TOKEN \o <<" ", "4", "2">>

LABEL_42 == <<"4", "2">>

LABEL_7 == <<"7">>

\* the label transformRequestData gives the first booking when it has no job_id
LABEL_BOOKING_1 == BOOKING_TOKEN \o <<" ", "1">>

VisitLabels == {LABEL_BOOKING_42, LABEL_42, LABEL_7, LABEL_BOOKING_1}

\* process.env: each credential variable is set or not
Environments ==
    [GOOGLE_PROJECT_ID  : {None, Some(<<"p", "1">>)},
     GOOGLE_CLIENT_EMAIL : {None, Some(<<"a", "@", "b">>)},
     GOOGLE_PRIVATE_KEY  : {None, Some(<<"k", "\\", "n", "e", "y">>)}]

Coordinates(lat, lng) == [latitude |-> lat, longitude |-> lng]

InboundBooking(job_id, origin, origin_coordinates, destination) ==
    [job_id |-> job_id, pax_count |-> 2, origin |-> origin,
     origin_coordinates |-> origin_coordinates, destination |-> destination]

HOTEL == "Hotel"

\* three bookings with distinct labels, two of them deriving the same id
InboundDistinct ==
    <<InboundBooking(Some(LABEL_BOOKING_42), AMB_TERMINAL_1, None,
                     Some(Coordinates(-33431516, -70784526))),
      InboundBooking(Some(LABEL_42), HOTEL, Some(Coordinates(-33445755, -70672417)),
                     Some(Coordinates(-33419112, -70597128))),
      InboundBooking(Some(LABEL_7), AMB_TERMINAL_2, None,
                     Some(Coordinates(-33433627, -70657671)))>>

\* two bookings submitted with the same job_id
InboundDuplicate ==
    <<InboundBooking(Some(LABEL_42), AMB_TERMINAL_1, None,
                     Some(Coordinates(-33431516, -70784526))),
      InboundBooking(Some(LABEL_42), AMB_TERMINAL_2, None,
                     Some(Coordinates(-33419112, -70597128)))>>

\* a booking without job_id, labelled by its position
InboundUnnamed ==
    <<InboundBooking(None, AMB_TERMINAL_1, None,
                     Some(Coordinates(-33431516, -70784526)))>>

\* a booking submitted without destination, after one that has it
InboundNoDestination ==
    <<InboundBooking(Some(LABEL_7), AMB_TERMINAL_1, None,
                     Some(Coordinates(-33431516, -70784526))),
      InboundBooking(Some(LABEL_42), AMB_TERMINAL_2, None, None)>>

InboundVehicle(vehicle_number, vehicle_capacity) ==
    [vehicle_number |-> vehicle_number, start_location |-> AMB_TERMINAL_2,
     start_coordinates |-> None, vehicle_capacity |-> vehicle_capacity]

Array(items) == [kind |-> "array", items |-> items]

Body(bks, vhs, parameters) ==
    Some([bookings |-> bks, vehicles |-> vhs, parameters |-> parameters])

OneVehicle == Array(<<InboundVehicle(Some(<<"V", "0", "0", "1">>), Some(7))>>)

\* requests that pass the validation block
ValidRequests ==
    {[body |-> Body(Array(InboundDistinct),
                    Array(<<InboundVehicle(Some(<<"V", "0", "0", "1">>), Some(4))>>),
                    Some([STOP_TIME_IN_MINUTES |-> Some(5),
                          MAX_ROUTE_TIME_IN_MINUTES |-> Some(120)]))],
     [body |-> Body(Array(InboundDuplicate), OneVehicle, None)],
     [body |-> Body(Array(InboundUnnamed),
                    Array(<<InboundVehicle(None, None)>>), None)],
     [body |-> Body(Array(InboundNoDestination), OneVehicle, None)]}

\* requests the validation block rejects
InvalidRequests ==
    {[body |-> None]}
    \cup {[body |-> Body(b, OneVehicle, None)] :
            b \in {[kind |-> "absent", items |-> <<>>],
                   [kind |-> "notArray", items |-> <<>>], Array(<<>>)}}
    \cup {[body |-> Body(Array(InboundUnnamed), v, None)] :
            v \in {[kind |-> "absent", items |-> <<>>],
                   [kind |-> "notArray", items |-> <<>>], Array(<<>>)}}

Requests == ValidRequests \cup InvalidRequests

\* the clock values `new Date()` may give (milliseconds)
Clocks == {86400999}

Visit(label, isPickup, startTime, amount) ==
    [shipmentLabel |-> label, isPickup |-> isPickup,
     startTime |-> startTime, amount |-> amount]

Transition(startTime, totalDuration, travelDistanceMeters) ==
    [startTime |-> startTime, totalDuration |-> totalDuration,
     travelDistanceMeters |-> travelDistanceMeters]

SomeMetrics ==
    Some([travelDuration |-> 1500, visitDuration |-> 360,
          totalDuration |-> 1860, travelDistanceMeters |-> 12000])

Route(visits, transitions, metrics) ==
    [vehicleLabel |-> <<"V", "0", "0", "1">>, visits |-> visits,
     transitions |-> transitions, metrics |-> metrics,
     routePolyline |-> IF metrics = None THEN None ELSE Some("encoded")]

Response(routes) ==
    [routes |-> routes, metrics |-> [usedVehicleCount |-> Len(routes)]]

\* drop-off visits at one of two start times; two of the labels derive the
\* same booking id
DropoffVisits ==
    {Visit(l, FALSE, t, -2) :
        l \in {LABEL_BOOKING_42, LABEL_42, LABEL_7}, t \in {60, 90}}

\* no two visits of the sequence are of the same shipment
DistinctShipments(visits) ==
    \A i, j \in 1..Len(visits) :
        i /= j => visits[i].shipmentLabel /= visits[j].shipmentLabel

\* transitions that end at 60 or at 90
Transitions ==
    {Transition(0, 60, 5), Transition(30, 60, 5), Transition(30, 60, 7)}

\* one route of drop-offs and transitions in every combination
DistanceResponses ==
    {Response(<<Route(v, t, SomeMetrics)>>) :
        v \in {d \in SeqsUpTo(DropoffVisits, MaxDropoffs) : DistinctShipments(d)},
        t \in SeqsUpTo(Transitions, MaxTransitions)}

\* visits that differ in kind and passenger amount only
PassengerVisits ==
    {Visit(LABEL_BOOKING_1, TRUE, 60, 2), Visit(LABEL_BOOKING_1, TRUE, 60, 4),
     Visit(LABEL_BOOKING_1, FALSE, 60, -2)}

\* one route of pickups and drop-offs, with metrics or without
PassengerResponses ==
    {Response(<<Route(v, <<>>, m)>>) :
        v \in SeqsUpTo(PassengerVisits, MaxVisits), m \in {None, SomeMetrics}}

\* the routes a response of several routes is made of
RouteShapes ==
    {Route(<<>>, <<>>, SomeMetrics),
     Route(<<Visit(LABEL_42, FALSE, 60, -2)>>, <<Transition(0, 60, 5)>>, None),
     Route(<<Visit(LABEL_7, TRUE, 60, 2), Visit(LABEL_7, FALSE, 90, -2)>>,
           <<Transition(0, 60, 5), Transition(30, 60, 7)>>, SomeMetrics),
     Route(<<Visit(LABEL_BOOKING_42, FALSE, 90, -2)>>, <<>>, SomeMetrics)}

MultiRouteResponses ==
    {Response(r) : r \in SeqsUpTo(RouteShapes, MaxRoutes)}

\* what the solver may answer
Responses == DistanceResponses \cup PassengerResponses \cup MultiRouteResponses

\* how the solver call may fail (after the client's own retries)
SolverErrors ==
    {[message |-> <<"4 DEADLINE_EXCEEDED: Deadline exceeded">>,
      details |-> Some("Deadline exceeded")],
     [message |-> <<"3 INVALID_ARGUMENT">>, details |-> None]}

-----------------------------------------------------------------------------
(* The handler as a state machine.  Each action is one synchronous block   *)
(* of optimizeRouteFunction: from the request to the answer or to the      *)
(* await of client.optimizeTours, and from the settled call to the answer. *)

Init ==
    /\ env \in Environments
    /\ pc = "idle"
    /\ req = None
    /\ bookings = None
    /\ vehicles = None
    /\ clients = 0
    /\ solverCalls = 0
    /\ request = None
    /\ response = None
    /\ thrown = None
    /\ logged = <<>>
    /\ visits_detail = None
    /\ visits_api_response = None
    /\ summary = None
    /\ sent = <<>>
    /\ call = None
    /\ result = None

\* res.status(code).send(body) / res.status(code).json(body)
Answer(code, answerBody) == [code |-> code, body |-> answerBody]

\* the validation block answers 400 and returns
RejectRequest(rq) ==
    /\ pc = "idle"
    /\ validationError(rq) /= None
    /\ req' = Some(rq)
    /\ sent' = Append(sent, Answer(400, validationError(rq)[1]))
    /\ pc' = "done"
    /\ UNCHANGED <<call, result, env, bookings, vehicles, clients, solverCalls, request,
                   response, thrown, logged, visits_detail,
                   visits_api_response, summary>>

\* transformRequestData throws and the handler's catch block answers 500
TransformFails(rq) ==
    /\ pc = "idle"
    /\ validationError(rq) = None
    /\ \E transformed \in {transformRequestData(rq.body[1])} :
           /\ ~transformed.ok
           /\ thrown' = transformed.err
           /\ logged' = Append(logged, outerLog(transformed.err[1]))
           /\ sent' = Append(sent, Answer(500, errorBody(transformed.err[1])))
    /\ req' = Some(rq)
    /\ pc' = "done"
    /\ UNCHANGED <<call, result, env, bookings, vehicles, clients, solverCalls, request,
                   response, visits_detail, visits_api_response, summary>>

\* createOptimizationClient throws (outside optimizeRoute's try block) and
\* the handler's catch block answers 500
ClientFails(rq) ==
    /\ pc = "idle"
    /\ validationError(rq) = None
    /\ transformRequestData(rq.body[1]).ok
    /\ ~createOptimizationClient(env).ok
    /\ \E data \in {transformRequestData(rq.body[1]).val[1]},
          error \in {createOptimizationClient(env).err[1]} :
           /\ req' = Some(rq)
           /\ bookings' = Some(data.bookings)
           /\ vehicles' = Some(data.vehicles)
           /\ thrown' = Some(error)
           /\ logged' = Append(logged, outerLog(error))
           /\ sent' = Append(sent, Answer(500, errorBody(error)))
    /\ pc' = "done"
    /\ UNCHANGED <<call, result, env, clients, solverCalls, request, response,
                   visits_detail, visits_api_response, summary>>

\* the request is transformed, the client built and optimizeTours called
CallSolver(rq, nowMs) ==
    /\ pc = "idle"
    /\ validationError(rq) = None
    /\ transformRequestData(rq.body[1]).ok
    /\ createOptimizationClient(env).ok
    /\ \E data \in {transformRequestData(rq.body[1]).val[1]} :
           /\ req' = Some(rq)
           /\ bookings' = Some(data.bookings)
           /\ vehicles' = Some(data.vehicles)
           /\ request' = Some(optimizeToursRequest(env, data.bookings, data.vehicles, nowMs))
    /\ clients' = clients + 1
    /\ solverCalls' = solverCalls + 1
    /\ pc' = "awaiting"
    /\ UNCHANGED <<call, result, env, response, thrown, logged, visits_detail,
                   visits_api_response, summary, sent>>

\* a rejection after which optimizeTours is called again
SolverRejects_Retrying(error) ==
    /\ pc = "awaiting"
    /\ solverCalls' = solverCalls + 1
    /\ logged' = Append(logged, innerLog(error))
    /\ UNCHANGED <<call, result, env, pc, req, bookings, vehicles, clients, request, response,
                   thrown, visits_detail, visits_api_response, summary, sent>>

\* optimizeTours rejects: optimizeRoute logs and rethrows the error, the
\* handler's catch block logs it and answers 500
SolverRejects(error) ==
    /\ pc = "awaiting"
    /\ thrown' = Some(error)
    /\ logged' = logged \o <<innerLog(error), outerLog(error)>>
    /\ sent' = Append(sent, Answer(500, errorBody(error)))
    /\ pc' = "done"
    /\ UNCHANGED <<call, result, env, req, bookings, vehicles, clients, solverCalls, request,
                   response, visits_detail, visits_api_response, summary>>

\* optimizeTours resolves and every view builder returns: the answer is 200
SolverResolves(resp) ==
    /\ pc = "awaiting"
    /\ \E results \in {processResults(bookings[1], resp)} :
           /\ results.error = None
           /\ visits_detail' = results.visits_detail
           /\ visits_api_response' = results.visits_api_response
           /\ summary' = results.summary
           /\ sent' = Append(sent, Answer(200, successBody(resp, results)))
    /\ response' = Some(resp)
    /\ pc' = "done"
    /\ UNCHANGED <<call, result, env, req, bookings, vehicles, clients, solverCalls, request,
                   thrown, logged>>

\* optimizeTours resolves and a view builder throws: optimizeRoute logs and
\* rethrows the error, the handler's catch block logs it and answers 500
ProcessingFails(resp) ==
    /\ pc = "awaiting"
    /\ \E results \in {processResults(bookings[1], resp)} :
           /\ results.error /= None
           /\ visits_detail' = results.visits_detail
           /\ visits_api_response' = results.visits_api_response
           /\ summary' = results.summary
           /\ thrown' = results.error
           /\ logged' = logged \o <<innerLog(results.error[1]), outerLog(results.error[1])>>
           /\ sent' = Append(sent, Answer(500, errorBody(results.error[1])))
    /\ response' = Some(resp)
    /\ pc' = "done"
    /\ UNCHANGED <<call, result, env, req, bookings, vehicles, clients, solverCalls, request>>

Next ==
    \/ \E rq \in Requests : RejectRequest(rq)
    \/ \E rq \in Requests : TransformFails(rq)
    \/ \E rq \in Requests : ClientFails(rq)
    \/ \E rq \in Requests, nowMs \in Clocks : CallSolver(rq, nowMs)
    \/ \E error \in SolverErrors : SolverRejects(error)
    \/ \E resp \in Responses : SolverResolves(resp)
    \/ \E resp \in Responses : ProcessingFails(resp)

Spec == Init /\ [][Next]_vars

-----------------------------------------------------------------------------
(* The functions of lib/aux.js called on their own, outside a request: the *)
(* handler stays idle, call holds the function and its arguments, result   *)
(* what it returned.                                                       *)

\* largest magnitude of the booking ids written in the labels
MaxId == 12

\* the decimal numeral of an integer, as `${n}` writes it
IntToString(n) ==
    IF n < 0 THEN <<"-">> \o NatToString(0 - n) ELSE NatToString(n)

\* the label 'Booking n'
BookingLabel(n) == BOOKING_TOKEN \o <<" ">> \o IntToString(n)

\* labels that are no numeral, with or without the token
OddLabels ==
    {<<>>, <<"a", "b", "c">>, BOOKING_TOKEN, BOOKING_TOKEN \o <<"7">>,
     <<"7", " ">> \o BOOKING_TOKEN, <<" ", "7", " ">>,
     BOOKING_TOKEN \o <<" ">> \o BOOKING_TOKEN \o <<" ", "7">>}

CallLabels ==
    {IntToString(n) : n \in (0 - MaxId)..MaxId}
    \cup {BookingLabel(n) : n \in (0 - MaxId)..MaxId}
    \cup OddLabels
    \cup VisitLabels

\* getBookingIDFromShipment(visit), for a visit or for none
BookingIDCalls ==
    {[fn |-> "getBookingIDFromShipment", visit |-> v] :
        v \in {NullVisit} \cup {Visit(l, FALSE, 60, -2) : l \in CallLabels}}

\* the shipments transformRequestData makes of the request of one booking
UnnamedShipments ==
    transformRequestData([bookings |-> Array(InboundUnnamed),
                          vehicles |-> OneVehicle,
                          parameters |-> None]).val[1].bookings

\* getVisitsDetail(bookings, routes, pickup) for one route of pickups and
\* drop-offs of that booking, with the flag set or not
VisitsDetailCalls ==
    {[fn |-> "getVisitsDetail", bookings |-> UnnamedShipments,
      routes |-> <<Route(v, <<>>, SomeMetrics)>>, pickup |-> pickup] :
        v \in SeqsUpTo(PassengerVisits, MaxVisits), pickup \in BOOLEAN}

Calls == BookingIDCalls \cup VisitsDetailCalls

InitCalls ==
    /\ env = [GOOGLE_PROJECT_ID |-> None, GOOGLE_CLIENT_EMAIL |-> None,
              GOOGLE_PRIVATE_KEY |-> None]
    /\ pc = "idle"
    /\ req = None
    /\ bookings = None
    /\ vehicles = None
    /\ clients = 0
    /\ solverCalls = 0
    /\ request = None
    /\ response = None
    /\ thrown = None
    /\ logged = <<>>
    /\ visits_detail = None
    /\ visits_api_response = None
    /\ summary = None
    /\ sent = <<>>
    /\ call \in {Some(c) : c \in Calls}
    /\ result = None

handlerVars ==
    <<env, pc, req, bookings, vehicles, clients, solverCalls, request,
      response, thrown, logged, visits_detail, visits_api_response,
      summary, sent>>

CallBookingID ==
    /\ result = None
    /\ call[1].fn = "getBookingIDFromShipment"
    /\ result' = Some(getBookingIDFromShipment(call[1].visit))
    /\ UNCHANGED <<call, handlerVars>>

CallVisitsDetail ==
    /\ result = None
    /\ call[1].fn = "getVisitsDetail"
    /\ result' = Some(getVisitsDetail(call[1].bookings, call[1].routes, call[1].pickup))
    /\ UNCHANGED <<call, handlerVars>>

NextCalls ==
    \/ CallBookingID
    \/ CallVisitsDetail

SpecCalls == InitCalls /\ [][NextCalls]_vars

-----------------------------------------------------------------------------
(* Properties.  The operators of this part restate what is claimed in their *)
(* own terms; they are not used by the model above.                        *)

Range(f) == {f[i] : i \in DOMAIN f}

\* the routes of the solver's response, none before it arrives
Routes == IF response = None THEN <<>> ELSE response[1].routes

\* the positions of the drop-off visits of a route, in solver order
RECURSIVE DropoffPositions(_, _)
DropoffPositions(route, i) ==
    IF i > Len(route.visits) THEN <<>>
    ELSE IF route.visits[i].isPickup THEN DropoffPositions(route, i + 1)
    ELSE <<i>> \o DropoffPositions(route, i + 1)

\* the k-th drop-off visit of a route
Dropoff(route, k) == route.visits[DropoffPositions(route, 1)[k]]

NumDropoffs(route) == Len(DropoffPositions(route, 1))

NumPickups(route) == Cardinality({i \in 1..Len(route.visits) : route.visits[i].isPickup})

\* the bookings of the submitted set that carry the label
Labelled(label) == {i \in 1..Len(bookings[1]) : bookings[1][i].label = label}

\* the transitions of the route that end exactly when the visit starts
Arriving(route, visit) ==
    {i \in 1..Len(route.transitions) :
        route.transitions[i].startTime + route.transitions[i].totalDuration
            = visit.startTime}

\* the answer sent, when there is exactly one
TheAnswer == sent[1]

Answered(code) == pc = "done" /\ Len(sent) = 1 /\ TheAnswer.code = code

\* The request passed the validation block.
Validated ==
    /\ req /= None
    /\ req[1].body /= None
    /\ req[1].body[1].bookings.kind = "array"
    /\ req[1].body[1].bookings.items /= <<>>
    /\ req[1].body[1].vehicles.kind = "array"
    /\ req[1].body[1].vehicles.items /= <<>>

\* Some drop-off visit of the response has no booking with its label.
SomeDropoffUnmatched ==
    \E r \in 1..Len(Routes) : \E k \in 1..NumDropoffs(Routes[r]) :
        Labelled(Dropoff(Routes[r], k).shipmentLabel) = {}

(***************************************************************************)
(* C1: getReferenceBooking returns, for a visit whose label some booking   *)
(* carries, a booking with that label together with that booking's first   *)
(* pickup and first delivery coordinates; when no booking carries the      *)
(* label it returns nothing and raises an error whose message names the    *)
(* label.  The handler's records and its error show the same.              *)
(***************************************************************************)
C1_MatchOf(label) ==
    LET res == getReferenceBooking(bookings[1], Visit(label, FALSE, 60, -2))
    IN  IF Labelled(label) /= {}
        THEN /\ res.ok
             /\ res.val[1].ref_booking \in Range(bookings[1])
             /\ res.val[1].ref_booking.label = label
             /\ res.val[1].ref_booking_origin_coordinates
                  = res.val[1].ref_booking.pickups[1].arrivalLocation
             /\ res.val[1].ref_booking_destination_coordinates
                  = [latitude  |-> res.val[1].ref_booking.deliveries[1].arrivalLocation.latitude,
                     longitude |-> res.val[1].ref_booking.deliveries[1].arrivalLocation.longitude]
        ELSE /\ ~res.ok
             /\ res.val = None
             /\ res.err[1].message = <<"No booking found with label: ", label>>

C1_ReferenceBooking ==
    bookings /= None =>
        /\ \A label \in VisitLabels : C1_MatchOf(label)
        /\ visits_detail /= None =>
             \A r \in 1..Len(Routes) : \A k \in 1..NumDropoffs(Routes[r]) :
                \E i \in Labelled(Dropoff(Routes[r], k).shipmentLabel) :
                    /\ visits_detail[1][r].visits[k].origin.lat
                         = bookings[1][i].pickups[1].arrivalLocation.latitude
                    /\ visits_detail[1][r].visits[k].destination.lng
                         = bookings[1][i].deliveries[1].arrivalLocation.longitude
        /\ (response /= None /\ thrown /= None) =>
             \E r \in 1..Len(Routes) : \E k \in 1..NumDropoffs(Routes[r]) :
                /\ Labelled(Dropoff(Routes[r], k).shipmentLabel) = {}
                /\ thrown[1].message
                     = <<"No booking found with label: ", Dropoff(Routes[r], k).shipmentLabel>>

\* A request was answered with matched visits while another label of the
\* model has no booking in the submitted set.
C1_Witness ==
    /\ Answered(200)
    /\ \E r \in 1..Len(Routes) : NumDropoffs(Routes[r]) > 0
    /\ \E label \in VisitLabels : Labelled(label) = {}

(***************************************************************************)
(* C2: when two or more bookings of the submitted set carry the visit's    *)
(* label, getReferenceBooking returns no booking and reports an error.     *)
(***************************************************************************)
C2_AmbiguousMatchFails ==
    \A r \in 1..Len(Routes) : \A k \in 1..NumDropoffs(Routes[r]) :
        Cardinality(Labelled(Dropoff(Routes[r], k).shipmentLabel)) >= 2 =>
            /\ ~getReferenceBooking(bookings[1], Dropoff(Routes[r], k)).ok
            /\ Answered(500)

(***************************************************************************)
(* C3: within a route, the distance of successive drop-off records is      *)
(* non-decreasing, in getVisitsDetail's records (distance) and in          *)
(* createVisitsAPIResponse's (distancia); the first drop-off's distance is *)
(* 0 when no transition arrives at it.                                     *)
(***************************************************************************)
C3_NonDecreasing(distances, route) ==
    /\ \A k \in 1..(Len(distances) - 1) : distances[k + 1] >= distances[k]
    /\ (Len(distances) > 0 /\ Arriving(route, Dropoff(route, 1)) = {})
          => distances[1] = 0

C3_DistanceNonDecreasing ==
    /\ visits_detail /= None =>
         \A r \in 1..Len(Routes) :
            C3_NonDecreasing([k \in 1..Len(visits_detail[1][r].visits) |->
                                 visits_detail[1][r].visits[k].distance], Routes[r])
    /\ (visits_api_response /= None /\ Len(Routes) > 0) =>
         C3_NonDecreasing([k \in 1..(Len(visits_api_response[1].responde) - 1) |->
                              visits_api_response[1].responde[k + 1].distancia],
                          Routes[Len(Routes)])

-----------------------------------------------------------------------------
(***************************************************************************)
(* C4 as claimed: the distance getCumulativeDistances attributes to the    *)
(* k-th drop-off visit is the sum of travelDistanceMeters over all         *)
(* transitions of the route that end at or before the visit's start time.  *)
(***************************************************************************)
RECURSIVE SumOver(_, _)
\* the sum of f over the finite set S of its arguments
SumOver(f, S) ==
    IF S = {} THEN 0
    ELSE LET x == CHOOSE y \in S : TRUE IN f[x] + SumOver(f, S \ {x})

\* the transitions of the route that end at or before the visit's start
EndedBy(route, visit) ==
    {i \in 1..Len(route.transitions) :
        route.transitions[i].startTime + route.transitions[i].totalDuration
            <= visit.startTime}

TravelDistances(route) ==
    [i \in 1..Len(route.transitions) |-> route.transitions[i].travelDistanceMeters]

\* the object getCumulativeDistances returns for the route
DistancesOf(route) ==
    getCumulativeDistances(dropoffVisits(route), route.transitions)

C4_SumOfAllEarlierTransitions ==
    \A r \in 1..Len(Routes) : \A k \in 1..NumDropoffs(Routes[r]) :
        LET visit == Dropoff(Routes[r], k)
            key   == getBookingIDFromShipment(visit)
        IN  key \in DOMAIN DistancesOf(Routes[r]) =>
              DistancesOf(Routes[r])[key].distanceMeters
                = SumOver(TravelDistances(Routes[r]), EndedBy(Routes[r], visit))

(***************************************************************************)
(* C4 as amended: every entry getCumulativeDistances records carries the   *)
(* position of a drop-off visit that has a transition ending exactly at    *)
(* its start time, and its distance is the sum, over the drop-off visits   *)
(* up to that position that have such a transition, of the distance of the *)
(* first such transition; every drop-off visit with such a transition has  *)
(* an entry under its booking id.                                          *)
(***************************************************************************)
\* the distance of the first transition arriving at the k-th drop-off, 0 if none
C4_Leg(route, k) ==
    LET arriving == Arriving(route, Dropoff(route, k))
    IN  IF arriving = {} THEN 0
        ELSE route.transitions[Min(arriving)].travelDistanceMeters

C4_RunningTotal(route, k) ==
    SumOver([j \in 1..k |-> C4_Leg(route, j)], 1..k)

C4_SumOfMatchingTransitions ==
    \A r \in 1..Len(Routes) :
        LET route == Routes[r]
            distancesByVisit == DistancesOf(route)
        IN  /\ \A key \in DOMAIN distancesByVisit :
                LET k == distancesByVisit[key].visitIndex + 1
                IN  /\ k \in 1..NumDropoffs(route)
                    /\ Arriving(route, Dropoff(route, k)) /= {}
                    /\ getBookingIDFromShipment(Dropoff(route, k)) = key
                    /\ distancesByVisit[key].distanceMeters = C4_RunningTotal(route, k)
            /\ \A k \in 1..NumDropoffs(route) :
                Arriving(route, Dropoff(route, k)) /= {} =>
                    getBookingIDFromShipment(Dropoff(route, k)) \in DOMAIN distancesByVisit

\* A route whose drop-off has a transition ending exactly at its start and
\* another transition ending earlier, not counted in its distance.
C4_Witness ==
    /\ Answered(200)
    /\ \E r \in 1..Len(Routes) : \E k \in 1..NumDropoffs(Routes[r]) :
        /\ Arriving(Routes[r], Dropoff(Routes[r], k)) /= {}
        /\ EndedBy(Routes[r], Dropoff(Routes[r], k))
             /= Arriving(Routes[r], Dropoff(Routes[r], k))
        /\ visits_detail[1][r].visits[k].distance = C4_RunningTotal(Routes[r], k)

-----------------------------------------------------------------------------
(***************************************************************************)
(* C5: the responde list of createVisitsAPIResponse's result holds the     *)
(* records of the last route only: its start record and one record per     *)
(* drop-off visit of that route, in order, all with num_ruta the number of  *)
(* routes; no record of an earlier route is in it; status is "Ok".          *)
(***************************************************************************)
C5_OnlyLastRoute ==
    (visits_api_response /= None /\ Len(Routes) >= 1) =>
        LET n == Len(Routes)
            last == Routes[n]
            responde == visits_api_response[1].responde
        IN  /\ visits_api_response[1].status = "Ok"
            /\ Len(responde) = 1 + NumDropoffs(last)
            /\ \A j \in 1..Len(responde) : responde[j].num_ruta = n
            /\ responde[1].posicion_en_ruta = -1
            /\ \A k \in 1..NumDropoffs(last) :
                /\ responde[k + 1].posicion_en_ruta = k - 1
                /\ responde[k + 1].cod_cliente = getBookingIDFromShipment(Dropoff(last, k))
                /\ \E i \in Labelled(Dropoff(last, k).shipmentLabel) :
                     responde[k + 1].lat = bookings[1][i].deliveries[1].arrivalLocation.latitude

\* Two routes of one drop-off each, of different bookings, were answered
\* with two records: the start record and the second route's drop-off.
C5_Witness ==
    /\ Answered(200)
    /\ Len(Routes) = 2
    /\ NumDropoffs(Routes[1]) = 1
    /\ NumDropoffs(Routes[2]) = 1
    /\ Dropoff(Routes[1], 1).shipmentLabel /= Dropoff(Routes[2], 1).shipmentLabel
    /\ Len(TheAnswer.body.api_response.responde) = 2
    /\ TheAnswer.body.api_response.responde[2].num_ruta = 2

(***************************************************************************)
(* C6: a request whose bookings (or vehicles) field is absent, not an       *)
(* array or empty is answered 400 with "At least one booking is required"   *)
(* ("At least one vehicle is required"), and in no state of that execution  *)
(* has a solver client been created or a solver call been made.             *)
(***************************************************************************)
C6_Missing(field) == field.kind \in {"absent", "notArray"} \/ field.items = <<>>

C6_Rejected(message) ==
    /\ pc = "done"
    /\ sent = <<[code |-> 400, body |-> [error |-> message]]>>
    /\ clients = 0
    /\ solverCalls = 0
    /\ request = None
    /\ response = None

C6_RejectedBeforeSolver ==
    (req /= None /\ req[1].body /= None) =>
        /\ C6_Missing(req[1].body[1].bookings)
             => C6_Rejected("At least one booking is required")
        /\ (~C6_Missing(req[1].body[1].bookings) /\ C6_Missing(req[1].body[1].vehicles))
             => C6_Rejected("At least one vehicle is required")

\* A request with an empty bookings array was answered.
C6_Witness ==
    /\ req /= None
    /\ req[1].body /= None
    /\ req[1].body[1].bookings = [kind |-> "array", items |-> <<>>]
    /\ Len(sent) = 1
    /\ pc = "done"

-----------------------------------------------------------------------------
(***************************************************************************)
(* C7: one answer is sent per request, none before the handler is done.     *)
(* When an error was thrown (the solver call failed, or a drop-off visit    *)
(* of some route matched no booking) the answer is the 500 answer with      *)
(* status "error" and the error's message, and it carries no results.  The  *)
(* 200 answer is sent only when the call returned and the three view        *)
(* builders completed, and it carries their results.                        *)
(***************************************************************************)
C7_ErrorAnswer ==
    /\ Len(sent) = 1
    /\ TheAnswer.code = 500
    /\ DOMAIN TheAnswer.body = {"status", "error", "details"}
    /\ TheAnswer.body.status = "error"
    /\ TheAnswer.body.error = thrown[1].message

C7_SuccessAnswer ==
    /\ thrown = None
    /\ response /= None
    /\ ~SomeDropoffUnmatched
    /\ visits_detail /= None
    /\ visits_api_response /= None
    /\ summary /= None
    /\ Len(visits_detail[1]) = Len(Routes)
    /\ TheAnswer.body.status = "success"
    /\ TheAnswer.body.summary = summary[1]
    /\ TheAnswer.body.detailed_visits = visits_detail[1]
    /\ TheAnswer.body.api_response = visits_api_response[1]
    /\ Len(TheAnswer.body.routes) = Len(Routes)

C7_NoPartialResults ==
    /\ Len(sent) <= 1
    /\ pc = "done" <=> Len(sent) = 1
    /\ thrown /= None => C7_ErrorAnswer
    /\ (response /= None /\ SomeDropoffUnmatched) => (thrown /= None /\ Answered(500))
    /\ (Len(sent) = 1 /\ Validated) => TheAnswer.code \in {200, 500}
    /\ (Len(sent) = 1 /\ TheAnswer.code = 200) => C7_SuccessAnswer

\* The drop-off of the first route matched a booking, the drop-off of the
\* second route matched none, and the request was answered 500.
C7_Witness ==
    /\ Answered(500)
    /\ Len(Routes) = 2
    /\ NumDropoffs(Routes[1]) = 1
    /\ Labelled(Dropoff(Routes[1], 1).shipmentLabel) /= {}
    /\ NumDropoffs(Routes[2]) = 1
    /\ Labelled(Dropoff(Routes[2], 1).shipmentLabel) = {}
    /\ visits_detail = None

(***************************************************************************)
(* C8 as claimed: a request that passes the validation block, with the     *)
(* credentials set, has exactly one optimizeTours call, and no request     *)
(* ever has a second one; no view is built before the call has returned;   *)
(* when the call fails, the error the handler catches is the error of the  *)
(* call, the one optimizeRoute logged.                                      *)
(***************************************************************************)
C8_CredentialsPresent ==
    /\ env.GOOGLE_PROJECT_ID /= None
    /\ env.GOOGLE_CLIENT_EMAIL /= None
    /\ env.GOOGLE_PRIVATE_KEY /= None

\* every booking of the request has a destination
C8_Transformable ==
    \A i \in 1..Len(req[1].body[1].bookings.items) :
        req[1].body[1].bookings.items[i].destination /= None

\* no view before the call has returned, and the call's error unmodified
C8_CallThenViews ==
    /\ clients = solverCalls
    /\ solverCalls = 1 =>
         /\ request /= None
         /\ Len(request[1].model.shipments) = Len(req[1].body[1].bookings.items)
    /\ response = None =>
         (visits_detail = None /\ visits_api_response = None /\ summary = None)
    /\ (solverCalls = 1 /\ response = None /\ pc = "done") =>
         /\ thrown /= None
         /\ thrown[1] \in SolverErrors
         /\ logged = <<[where |-> "Error in route optimization:", error |-> thrown[1]],
                       [where |-> "Error in route optimization function:", error |-> thrown[1]]>>
         /\ TheAnswer.body.error = thrown[1].message

C8_OneCallPerValidatedRequest ==
    /\ solverCalls = (IF Validated /\ C8_CredentialsPresent THEN 1 ELSE 0)
    /\ C8_CallThenViews

(***************************************************************************)
(* C8 as amended: a request that passes the validation block and whose     *)
(* bookings all have a destination, with the credentials set, has exactly  *)
(* one optimizeTours call; any other request has none (one whose booking   *)
(* has no destination is answered 500 before any client is created); no    *)
(* request ever has a second call; no view is built before the call has    *)
(* returned; when the call fails, the error the handler catches is the     *)
(* error of the call, the one optimizeRoute logged.                         *)
(***************************************************************************)
C8_SingleSolverCall ==
    /\ solverCalls <= 1
    /\ solverCalls = (IF Validated /\ C8_Transformable /\ C8_CredentialsPresent
                      THEN 1 ELSE 0)
    /\ (Validated /\ ~C8_Transformable) =>
         (Answered(500) /\ clients = 0 /\ request = None)
    /\ C8_CallThenViews

\* The one call of a validated request failed and the request was answered.
C8_Witness ==
    /\ Validated
    /\ C8_Transformable
    /\ C8_CredentialsPresent
    /\ solverCalls = 1
    /\ response = None
    /\ thrown /= None
    /\ Answered(500)

(***************************************************************************)
(* C9: buildOptimizationSummary's total_routes is the number of routes of   *)
(* the response; its routes list has one entry per route with metrics, in   *)
(* route order, and none for a route without; an entry's route_number is    *)
(* the route's 1-based position, its total_stops and total_dropoffs are     *)
(* the number of non-pickup visits, its total_pickups the number of pickup  *)
(* visits.                                                                  *)
(***************************************************************************)
RECURSIVE C9_WithMetrics(_, _)
\* the positions of the routes that have metrics, in order, from i on
C9_WithMetrics(routes, i) ==
    IF i > Len(routes) THEN <<>>
    ELSE IF routes[i].metrics = None THEN C9_WithMetrics(routes, i + 1)
    ELSE <<i>> \o C9_WithMetrics(routes, i + 1)

C9_NonPickups(route) ==
    Cardinality({i \in 1..Len(route.visits) : ~route.visits[i].isPickup})

C9_Summary ==
    summary /= None =>
        LET positions == C9_WithMetrics(Routes, 1)
        IN  /\ summary[1].total_routes = Len(Routes)
            /\ Len(summary[1].routes) = Len(positions)
            /\ \A j \in 1..Len(positions) :
                LET entry == summary[1].routes[j]
                    route == Routes[positions[j]]
                IN  /\ entry.route_number = positions[j]
                    /\ entry.total_stops = C9_NonPickups(route)
                    /\ entry.total_dropoffs = C9_NonPickups(route)
                    /\ entry.total_pickups = NumPickups(route)

\* Of two routes the first has no metrics: the summary counts two routes
\* and has one entry, numbered 2, of a route with a pickup and a drop-off.
C9_Witness ==
    /\ Answered(200)
    /\ Len(Routes) = 2
    /\ Routes[1].metrics = None
    /\ summary[1].total_routes = 2
    /\ Len(summary[1].routes) = 1
    /\ summary[1].routes[1].route_number = 2
    /\ summary[1].routes[1].total_pickups = 1
    /\ summary[1].routes[1].total_stops = 1

(***************************************************************************)
(* C10: an entry's total_passengers is the sum of the strictly positive     *)
(* passenger amounts of the route's visits and its vehicle_capacity is 7;   *)
(* for one route of one pickup (+2) and one drop-off (-2) the summary       *)
(* reports total_routes = 1, total_passengers = 2 and vehicle_capacity = 7. *)
(***************************************************************************)
C10_PositiveAmounts(route) ==
    SumOver([i \in 1..Len(route.visits) |->
                IF route.visits[i].amount > 0 THEN route.visits[i].amount ELSE 0],
            1..Len(route.visits))

\* one route, with metrics, of one pickup of 2 and one drop-off of 2
C10_Scenario ==
    /\ Len(Routes) = 1
    /\ Routes[1].metrics /= None
    /\ Len(Routes[1].visits) = 2
    /\ \E i, j \in 1..2 :
        /\ Routes[1].visits[i].isPickup /\ Routes[1].visits[i].amount = 2
        /\ ~Routes[1].visits[j].isPickup /\ Routes[1].visits[j].amount = -2

C10_Passengers ==
    summary /= None =>
        /\ \A j \in 1..Len(summary[1].routes) :
            /\ summary[1].routes[j].total_passengers
                 = C10_PositiveAmounts(Routes[summary[1].routes[j].route_number])
            /\ summary[1].routes[j].vehicle_capacity = 7
        /\ C10_Scenario =>
            /\ summary[1].total_routes = 1
            /\ Len(summary[1].routes) = 1
            /\ summary[1].routes[1].total_passengers = 2
            /\ summary[1].routes[1].vehicle_capacity = 7

\* The request of one booking of 2 passengers and one vehicle was answered
\* for one route of one pickup and one drop-off.
C10_Witness ==
    /\ Answered(200)
    /\ Len(bookings[1]) = 1
    /\ bookings[1][1].amount = 2
    /\ Len(vehicles[1]) = 1
    /\ vehicles[1][1].maxLoad = 7
    /\ C10_Scenario
    /\ TheAnswer.body.summary.routes[1].total_passengers = 2

-----------------------------------------------------------------------------
(***************************************************************************)
(* C11: for every route whose running passenger load (each prefix sum of   *)
(* the signed amounts of its visits) stays between 0 and the vehicle        *)
(* capacity, the total_passengers the summary reports does not exceed the   *)
(* vehicle_capacity it reports.                                             *)
(***************************************************************************)
\* the passenger load after the first k visits of the route
C11_Load(route, k) ==
    SumOver([i \in 1..k |-> route.visits[i].amount], 1..k)

C11_WellFormed(route, capacity) ==
    \A k \in 1..Len(route.visits) :
        C11_Load(route, k) >= 0 /\ C11_Load(route, k) <= capacity

C11_WithinCapacity ==
    summary /= None =>
        \A j \in 1..Len(summary[1].routes) :
            LET entry == summary[1].routes[j]
            IN  C11_WellFormed(Routes[entry.route_number], entry.vehicle_capacity)
                  => entry.total_passengers <= entry.vehicle_capacity

-----------------------------------------------------------------------------
\* the function that was called on its own returned
Returned(fn) == call /= None /\ call[1].fn = fn /\ result /= None

\* the ids written in the labels of the calls
C12_Ids == (0 - MaxId)..MaxId \cup {42}

(***************************************************************************)
(* C12 as claimed: getBookingIDFromShipment yields n for a visit labelled  *)
(* 'Booking n' and for one labelled 'n', whatever the integer n; for every  *)
(* present visit the result is not -1, the value of an absent visit.        *)
(***************************************************************************)
C12_RoundTrip ==
    Returned("getBookingIDFromShipment") =>
        \A n \in C12_Ids :
            (~IsNull(call[1].visit)
             /\ call[1].visit.shipmentLabel \in {IntToString(n), BookingLabel(n)})
                => result[1] = [nan |-> FALSE, val |-> n]

C12_SentinelOnlyWhenAbsent ==
    /\ C12_RoundTrip
    /\ Returned("getBookingIDFromShipment") =>
         (result[1] = [nan |-> FALSE, val |-> -1] <=> IsNull(call[1].visit))

(***************************************************************************)
(* C12 as amended: getBookingIDFromShipment yields n for a visit labelled  *)
(* 'Booking n' and for one labelled 'n'; it yields -1 for an absent visit,  *)
(* and for a present visit only when the label itself writes -1.            *)
(***************************************************************************)
C12_BookingID ==
    /\ C12_RoundTrip
    /\ Returned("getBookingIDFromShipment") =>
         /\ IsNull(call[1].visit) => result[1] = [nan |-> FALSE, val |-> -1]
         /\ (~IsNull(call[1].visit) /\ result[1] = [nan |-> FALSE, val |-> -1])
              => call[1].visit.shipmentLabel \in {IntToString(-1), BookingLabel(-1)}

\* The call for a visit labelled 'Booking 42' has returned 42.
C12_Witness ==
    /\ Returned("getBookingIDFromShipment")
    /\ ~IsNull(call[1].visit)
    /\ call[1].visit.shipmentLabel
         = <<"B", "o", "o", "k", "i", "n", "g", " ", "4", "2">>
    /\ result[1].val = 42

-----------------------------------------------------------------------------
(***************************************************************************)
(* C13: transformRequestData gives every delivery the stop time the        *)
(* request's parameters give, 3 minutes (180 seconds) when they give none; *)
(* every vehicle the route time the parameters give, 90 minutes (5400      *)
(* seconds) when they give none, and the capacity the vehicle gives, 7     *)
(* when it gives none.                                                     *)
(***************************************************************************)
\* the parameter the request gives under the name, None when it gives none
C13_Given(name) ==
    IF req[1].body[1].parameters = None THEN <<>>
    ELSE req[1].body[1].parameters[1][name]

\* the given value, the default when none is given
C13_Or(given, default) == IF given = <<>> THEN default ELSE given[1]

C13_AdapterDefaults ==
    bookings /= None =>
        /\ \A i \in 1..Len(bookings[1]) :
            bookings[1][i].deliveries[1].duration
              = 60 * C13_Or(C13_Given("STOP_TIME_IN_MINUTES"), 3)
        /\ \A i \in 1..Len(vehicles[1]) :
            /\ vehicles[1][i].maxDuration
                 = 60 * C13_Or(C13_Given("MAX_ROUTE_TIME_IN_MINUTES"), 90)
            /\ vehicles[1][i].maxLoad
                 = C13_Or(req[1].body[1].vehicles.items[i].vehicle_capacity, 7)

-----------------------------------------------------------------------------
(***************************************************************************)
(* C14: when one of GOOGLE_PROJECT_ID, GOOGLE_CLIENT_EMAIL and              *)
(* GOOGLE_PRIVATE_KEY is absent, createOptimizationClient throws an error   *)
(* whose message names an absent variable and returns no client; a request  *)
(* that reaches it is answered 500 with that error, with no client built    *)
(* and no solver call, at the first and only attempt.  When the three are   *)
(* present it throws nothing.                                               *)
(***************************************************************************)
C14_Variables == {"GOOGLE_PROJECT_ID", "GOOGLE_CLIENT_EMAIL", "GOOGLE_PRIVATE_KEY"}

C14_Absent == {name \in C14_Variables : env[name] = <<>>}

\* the error names an absent variable
C14_NamesAbsent(error) ==
    \E name \in C14_Absent :
        error.message =
          <<name, " environment variable is not set. Please set it before running the application.">>

C14_Credentials ==
    /\ IF C14_Absent = {}
       THEN /\ createOptimizationClient(env).ok
            /\ createOptimizationClient(env).err = <<>>
            /\ thrown /= None => thrown[1].message[1] \notin C14_Variables
       ELSE /\ ~createOptimizationClient(env).ok
            /\ createOptimizationClient(env).val = <<>>
            /\ C14_NamesAbsent(createOptimizationClient(env).err[1])
            /\ clients = 0
            /\ solverCalls = 0
            /\ request = None
    /\ (C14_Absent /= {} /\ Validated /\ C8_Transformable) =>
         /\ Answered(500)
         /\ C14_NamesAbsent(thrown[1])
         /\ TheAnswer.body.error = thrown[1].message
         /\ Len(logged) = 1

\* With the private key alone absent, a validated request was answered 500
\* with the error that names it.
C14_Witness ==
    /\ C14_Absent = {"GOOGLE_PRIVATE_KEY"}
    /\ Validated
    /\ Answered(500)
    /\ thrown[1].message[1] = "GOOGLE_PRIVATE_KEY"
    /\ clients = 0

-----------------------------------------------------------------------------
(***************************************************************************)
(* C15: for visits whose amount is the signed passenger delta (positive on  *)
(* a pickup, negative on a drop-off), every record getVisitsDetail emits    *)
(* with the pickup flag set has a positive pax_count and every record it    *)
(* emits with the flag not set (a drop-off record) has a negative one.      *)
(***************************************************************************)
\* the amounts of the route's visits are signed passenger deltas
C15_SignedDeltas(route) ==
    \A i \in 1..Len(route.visits) :
        IF route.visits[i].isPickup
        THEN route.visits[i].amount > 0
        ELSE route.visits[i].amount < 0

C15_PaxCountSign ==
    (Returned("getVisitsDetail") /\ result[1].ok) =>
        \A r \in 1..Len(call[1].routes) :
            C15_SignedDeltas(call[1].routes[r]) =>
                \A k \in 1..Len(result[1].val[1][r].visits) :
                    IF call[1].pickup
                    THEN result[1].val[1][r].visits[k].pax_count > 0
                    ELSE result[1].val[1][r].visits[k].pax_count < 0

-----------------------------------------------------------------------------
(***************************************************************************)
(* C16: for a drop-off visit at whose start time no transition ends,       *)
(* getCumulativeDistances records no entry and leaves the running total     *)
(* unchanged, and getVisitsDetail and createVisitsAPIResponse emit the      *)
(* visit's record with distance 0, without an error; a drop-off visit that  *)
(* has such a transition gets the entry of the running total, the distance  *)
(* of its first such transition added.                                      *)
(***************************************************************************)
\* the distance of the k-th drop-off record of route r in the two views
\* (createVisitsAPIResponse exposes the last route only)
C16_Emitted(r, k, distance) ==
    /\ visits_detail /= None => visits_detail[1][r].visits[k].distance = distance
    /\ (visits_api_response /= None /\ r = Len(Routes)) =>
         visits_api_response[1].responde[k + 1].distancia = distance

\* the object getCumulativeDistances has built when it has processed the
\* first k drop-off visits of the route
C16_After(route, k) ==
    getCumulativeDistances(SubSeq(dropoffVisits(route), 1, k), route.transitions)

C16_MissingTransition ==
    /\ (response /= None /\ ~SomeDropoffUnmatched) => Answered(200)
    /\ \A r \in 1..Len(Routes) : \A k \in 1..NumDropoffs(Routes[r]) :
        LET route == Routes[r]
            key   == getBookingIDFromShipment(Dropoff(route, k))
        IN  IF Arriving(route, Dropoff(route, k)) = {}
            THEN /\ C16_After(route, k) = C16_After(route, k - 1)
                 /\ C16_Emitted(r, k, 0)
            ELSE /\ key \in DOMAIN C16_After(route, k)
                 /\ C16_After(route, k)[key]
                      = [visitIndex |-> k - 1,
                         distanceMeters |-> C4_RunningTotal(route, k)]

-----------------------------------------------------------------------------
(***************************************************************************)
(* C17: with zero routes createVisitsAPIResponse's result is {status: Ok}   *)
(* without responde.  Otherwise, for the last route (number r, d drop-off   *)
(* visits), responde has d + 1 records, all with num_ruta = r: the start    *)
(* record, with posicion_en_ruta -1, cod_cliente 0, distancia 0 and         *)
(* tiempo_viaje 0, at the pickup coordinates of the booking of the first    *)
(* drop-off visit, at 0/0 when d = 0; then the d drop-off records, with     *)
(* posicion_en_ruta 0..d-1 in solver order, each with the booking id of its *)
(* visit and the delivery coordinates of its booking.                       *)
(***************************************************************************)
\* the booking getReferenceBooking takes for the visit
C17_BookingOf(visit) == bookings[1][Min(Labelled(visit.shipmentLabel))]

C17_StartRecord(route, record) ==
    /\ record.posicion_en_ruta = -1
    /\ record.cod_cliente = [nan |-> FALSE, val |-> 0]
    /\ record.distancia = 0
    /\ record.tiempo_viaje = 0
    /\ IF NumDropoffs(route) = 0
       THEN record.lat = 0 /\ record.lng = 0
       ELSE /\ record.lat
                 = C17_BookingOf(Dropoff(route, 1)).pickups[1].arrivalLocation.latitude
            /\ record.lng
                 = C17_BookingOf(Dropoff(route, 1)).pickups[1].arrivalLocation.longitude

C17_DropoffRecord(route, k, record) ==
    /\ record.posicion_en_ruta = k - 1
    /\ record.cod_cliente = getBookingIDFromShipment(Dropoff(route, k))
    /\ record.lat = C17_BookingOf(Dropoff(route, k)).deliveries[1].arrivalLocation.latitude
    /\ record.lng = C17_BookingOf(Dropoff(route, k)).deliveries[1].arrivalLocation.longitude

C17_RecordLayout ==
    visits_api_response /= None =>
        IF Len(Routes) = 0
        THEN visits_api_response[1] = [status |-> "Ok"]
        ELSE LET r == Len(Routes)
                 responde == visits_api_response[1].responde
             IN  /\ DOMAIN visits_api_response[1] = {"status", "responde"}
                 /\ Len(responde) = NumDropoffs(Routes[r]) + 1
                 /\ \A j \in 1..Len(responde) :
                        responde[j].num_ruta = r /\ responde[j].num_viaje = r
                 /\ C17_StartRecord(Routes[r], responde[1])
                 /\ \A k \in 1..NumDropoffs(Routes[r]) :
                        C17_DropoffRecord(Routes[r], k, responde[k + 1])

\* A route of two drop-off visits was answered with three records, the
\* start record at the pickup of the first visit's booking.
C17_Witness ==
    /\ Answered(200)
    /\ Len(Routes) = 1
    /\ NumDropoffs(Routes[1]) = 2
    /\ Len(TheAnswer.body.api_response.responde) = 3
    /\ TheAnswer.body.api_response.responde[1].lat /= 0
    /\ TheAnswer.body.api_response.responde[3].posicion_en_ruta = 1

-----------------------------------------------------------------------------
(***************************************************************************)
(* C18: in every route, the distance that getVisitsDetail and               *)
(* createVisitsAPIResponse emit for a drop-off visit with a matching        *)
(* transition is the running total getCumulativeDistances stored when it    *)
(* processed that visit, whatever the booking ids the other drop-off        *)
(* visits of the route derive.                                              *)
(***************************************************************************)
\* the running total stored when the k-th drop-off visit is processed
C18_OwnTotal(route, k) ==
    C16_After(route, k)[getBookingIDFromShipment(Dropoff(route, k))].distanceMeters

C18_OwnRunningTotal ==
    \A r \in 1..Len(Routes) :
        \A k \in 1..NumDropoffs(Routes[r]) :
            Arriving(Routes[r], Dropoff(Routes[r], k)) /= {} =>
                C16_Emitted(r, k, C18_OwnTotal(Routes[r], k))

====
